---- MODULE Spec2Model ----
(***************************************************************************)
(* WslPath (src/wsl_pathlib/path.py): a pathlib.Path subclass holding a    *)
(* Windows drive view and a WSL mount view of one path.                    *)
(*                                                                         *)
(* A Python str is a sequence of one-character strings.  The base class    *)
(* machinery used by the source (pathlib of CPython 3.11: the flavours'    *)
(* splitroot / parse_parts / join_parsed_parts, _from_parts,               *)
(* _from_parsed_parts, __str__, as_posix, parts) is modelled by what it    *)
(* computes.  The host platform (os.name) is an input of the program: it   *)
(* is chosen in Init and selects the base class as line 10 does.           *)
(* Extended-length prefixes (\\?\) need a character outside the alphabet   *)
(* of the inputs and are left out of splitroot.                            *)
(***************************************************************************)
EXTENDS Integers, Sequences, FiniteSets, TLC

VARIABLES os_name, objs, last

vars == <<os_name, objs, last>>

(***************************************************************************)
(* Bounds                                                                  *)
(***************************************************************************)
\* longest generated tail appended to a prefix to form a constructor argument
MaxTail == 2
\* instances alive at once: the constructed one and those derived from it
MaxObjs == 2

(***************************************************************************)
(* Python str                                                              *)
(***************************************************************************)
LowerSeq == <<"a","b","c","d","e","f","g","h","i","j","k","l","m",
  "n","o","p","q","r","s","t","u","v","w","x","y","z">>
UpperSeq == <<"A","B","C","D","E","F","G","H","I","J","K","L","M",
  "N","O","P","Q","R","S","T","U","V","W","X","Y","Z">>

Letters == 1..Len(LowerSeq)

Range(s) == {s[i] : i \in DOMAIN s}

\* str.isalpha() of one character
ch_isalpha(ch) == \E i \in Letters : ch = LowerSeq[i] \/ ch = UpperSeq[i]

\* str.lower() / str.upper() of one character
ch_lower(ch) ==
  IF \E i \in Letters : ch = UpperSeq[i]
  THEN LowerSeq[CHOOSE i \in Letters : ch = UpperSeq[i]]
  ELSE ch

ch_upper(ch) ==
  IF \E i \in Letters : ch = LowerSeq[i]
  THEN UpperSeq[CHOOSE i \in Letters : ch = LowerSeq[i]]
  ELSE ch

RECURSIVE str_lower(_)
str_lower(s) == IF s = <<>> THEN <<>> ELSE <<ch_lower(Head(s))>> \o str_lower(Tail(s))

RECURSIVE str_upper(_)
str_upper(s) == IF s = <<>> THEN <<>> ELSE <<ch_upper(Head(s))>> \o str_upper(Tail(s))

\* str.isalpha(): non-empty and every character alphabetic
str_isalpha(s) == s # <<>> /\ \A i \in DOMAIN s : ch_isalpha(s[i])

\* s.replace(a, b) for one-character a and b
RECURSIVE str_replace(_, _, _)
str_replace(s, a, b) ==
  IF s = <<>> THEN <<>>
  ELSE <<IF Head(s) = a THEN b ELSE Head(s)>> \o str_replace(Tail(s), a, b)

\* s[n:]
Slice(s, n) == SubSeq(s, n + 1, Len(s))

\* s[a:b]
Slice2(s, a, b) == SubSeq(s, a + 1, IF b < Len(s) THEN b ELSE Len(s))

\* s.startswith(p)
startswith(s, p) == Len(s) >= Len(p) /\ SubSeq(s, 1, Len(p)) = p

\* s.find(ch, start): 0-based index of the first ch at or after start, or -1
str_find(s, ch, start) ==
  IF \E i \in DOMAIN s : i > start /\ s[i] = ch
  THEN (CHOOSE i \in DOMAIN s :
          /\ i > start /\ s[i] = ch
          /\ \A j \in DOMAIN s : (j > start /\ s[j] = ch) => i <= j) - 1
  ELSE -1

\* s.split(sep, maxsplit) for a one-character sep (maxsplit -1: no limit)
RECURSIVE str_split(_, _, _)
str_split(s, sep, maxsplit) ==
  IF maxsplit = 0 \/ str_find(s, sep, 0) = -1 THEN <<s>>
  ELSE LET i == str_find(s, sep, 0)
       IN <<Slice2(s, 0, i)>> \o str_split(Slice(s, i + 1), sep, maxsplit - 1)

\* s.lstrip(ch)
RECURSIVE str_lstrip(_, _)
str_lstrip(s, ch) ==
  IF s # <<>> /\ Head(s) = ch THEN str_lstrip(Tail(s), ch) ELSE s

\* sep.join(parts)
RECURSIVE str_join(_, _)
str_join(sep, parts) ==
  IF parts = <<>> THEN <<>>
  ELSE IF Len(parts) = 1 THEN parts[1]
  ELSE parts[1] \o sep \o str_join(sep, Tail(parts))

(***************************************************************************)
(* pathlib flavours (the base classes of WslPath and of its two views)     *)
(***************************************************************************)
None == <<>>
Some(p) == <<p>>

flavour_sep(f) == IF f = "nt" THEN "\\" ELSE "/"

\* _PosixFlavour.splitroot
splitroot_posix(part) ==
  IF part # <<>> /\ part[1] = "/"
  THEN LET stripped_part == str_lstrip(part, "/")
       IN IF Len(part) - Len(stripped_part) = 2
          THEN [drv |-> <<>>, root |-> <<"/", "/">>, rel |-> stripped_part]
          ELSE [drv |-> <<>>, root |-> <<"/">>, rel |-> stripped_part]
  ELSE [drv |-> <<>>, root |-> <<>>, rel |-> part]

\* _WindowsFlavour.splitroot (the part already has altsep replaced by sep)
splitroot_nt(part) ==
  LET sep == "\\"
      first == Slice2(part, 0, 1)
      second == Slice2(part, 1, 2)
      third == Slice2(part, 2, 3)
      index == str_find(part, sep, 2)
      index2 == str_find(part, sep, index + 1)
      unc == /\ second = <<sep>> /\ first = <<sep>> /\ third # <<sep>>
             /\ index # -1
             /\ index2 # index + 1
      has_drv == second = <<":">> /\ first # <<>> /\ ch_isalpha(first[1])
      drv == IF has_drv THEN Slice2(part, 0, 2) ELSE <<>>
      rest == IF has_drv THEN Slice(part, 2) ELSE part
      first2 == IF has_drv THEN third ELSE first
  IN IF unc
     THEN LET end == IF index2 = -1 THEN Len(part) ELSE index2
          IN [drv |-> Slice2(part, 0, end), root |-> <<sep>>,
              rel |-> Slice(part, end + 1)]
     ELSE IF first2 = <<sep>>
          THEN [drv |-> drv, root |-> first2, rel |-> str_lstrip(rest, sep)]
          ELSE [drv |-> drv, root |-> <<>>, rel |-> rest]

splitroot(f, part) == IF f = "nt" THEN splitroot_nt(part) ELSE splitroot_posix(part)

\* the components of rel kept by parse_parts: non-empty and not '.'
RECURSIVE keep_components(_)
keep_components(xs) ==
  IF xs = <<>> THEN <<>>
  ELSE IF Head(xs) # <<>> /\ Head(xs) # <<".">>
       THEN <<Head(xs)>> \o keep_components(Tail(xs))
       ELSE keep_components(Tail(xs))

altsep_replaced(f, part) == IF f = "nt" THEN str_replace(part, "/", "\\") ELSE part

\* parse_parts: the inner loop that looks for a drive in the previous parts
RECURSIVE find_drive(_, _, _)
find_drive(f, parts, i) ==
  IF i = 0 THEN <<>>
  ELSE IF parts[i] = <<>> THEN find_drive(f, parts, i - 1)
  ELSE LET drv == splitroot(f, altsep_replaced(f, parts[i])).drv
       IN IF drv # <<>> THEN drv ELSE find_drive(f, parts, i - 1)

\* parse_parts: the loop over reversed(parts), from parts[i] down; parse_part
\* is the body of the loop for a non-empty part split into sr
RECURSIVE parse_loop(_, _, _)

parse_part(f, parts, i, sr) ==
  LET comps == keep_components(str_split(sr.rel, flavour_sep(f), -1))
      before == parse_loop(f, parts, i - 1)
  IN IF sr.drv # <<>> \/ sr.root # <<>>
     THEN [drv |-> IF sr.drv = <<>> THEN find_drive(f, parts, i - 1) ELSE sr.drv,
           root |-> sr.root, parsed |-> comps]
     ELSE [drv |-> before.drv, root |-> before.root, parsed |-> before.parsed \o comps]

parse_loop(f, parts, i) ==
  IF i = 0 THEN [drv |-> <<>>, root |-> <<>>, parsed |-> <<>>]
  ELSE IF parts[i] = <<>> THEN parse_loop(f, parts, i - 1)
  ELSE parse_part(f, parts, i, splitroot(f, altsep_replaced(f, parts[i])))

\* parse_parts: the anchor drv + root is the first part
anchored(r) ==
  [drv |-> r.drv, root |-> r.root,
   parts |-> (IF r.drv # <<>> \/ r.root # <<>> THEN <<r.drv \o r.root>> ELSE <<>>)
             \o r.parsed]

\* _Flavour.parse_parts
parse_parts(f, parts) == anchored(parse_loop(f, parts, Len(parts)))

\* _Flavour.join_parsed_parts (casefold is lower() on nt, the identity on posix)
join_parsed_parts(f, drv, root, parts, drv2, root2, parts2) ==
  LET casefold(s) == IF f = "nt" THEN str_lower(s) ELSE s
      second == [drv |-> drv2, root |-> root2, parts |-> parts2]
  IN IF root2 # <<>>
     THEN IF drv2 = <<>> /\ drv # <<>>
          THEN [drv |-> drv, root |-> root2, parts |-> <<drv \o root2>> \o Tail(parts2)]
          ELSE second
     ELSE IF drv2 # <<>>
          THEN IF drv2 = drv \/ casefold(drv2) = casefold(drv)
               THEN [drv |-> drv, root |-> root, parts |-> parts \o Tail(parts2)]
               ELSE second
          ELSE [drv |-> drv, root |-> root, parts |-> parts \o parts2]

\* PurePath._from_parts for str arguments: PurePosixPath(*args), PureWindowsPath(*args)
PurePath(f, args) == parse_parts(f, args)

\* PurePath._format_parsed_parts
_format_parsed_parts(f, p) ==
  IF p.drv # <<>> \/ p.root # <<>>
  THEN p.drv \o p.root \o str_join(<<flavour_sep(f)>>, Tail(p.parts))
  ELSE str_join(<<flavour_sep(f)>>, p.parts)

or_dot(s) == IF s = <<>> THEN <<".">> ELSE s

\* PurePath.__str__ ('.' for the empty path)
path_str(f, p) == or_dot(_format_parsed_parts(f, p))

\* PurePath.as_posix
as_posix(f, p) == str_replace(path_str(f, p), flavour_sep(f), "/")

(***************************************************************************)
(* WslPath                                                                 *)
(***************************************************************************)
\* line 10: _BASE_PATH_TYPE, the flavour of the instance itself
base_flavour(os) == IF os = "nt" THEN "nt" ELSE "posix"

\* An instance: _drv/_root/_parts of the base class, the three attributes of
\* the class, and history fields (src: the constructor argument, parent/seg:
\* the instance and the segment a join made it from, origin/via: the instance
\* and the accessor whose returned string was the constructor argument,
\* inits: runs of _init_views).
\* An attribute that is not set reads as None (getattr default) or ''.
NewObject(p) ==
  [drv |-> p.drv, root |-> p.root, parts |-> p.parts,
   _wsl_path |-> None, _win_path |-> None, drive_letter |-> <<>>,
   src |-> <<>>, parent |-> 0, seg |-> <<>>, origin |-> 0, via |-> "", inits |-> 0]

base_path(self) == [drv |-> self.drv, root |-> self.root, parts |-> self.parts]

Returns(self, ret) == [exc |-> "", self |-> self, ret |-> ret]
Raises(self, exc) == [exc |-> exc, self |-> self, ret |-> <<>>]

\* WslPath.is_mnt
is_mnt(path_in) ==
  IF ~startswith(path_in, <<"/", "m", "n", "t", "/">>) THEN FALSE
  ELSE LET parts == str_split(path_in, "/", 4)
       IN IF Len(parts) < 3 THEN FALSE
          ELSE LET drive_part == parts[3]
               IN Len(drive_part) = 1 /\ str_isalpha(drive_part)

\* WslPath.is_nt
is_nt(path_in) ==
  IF Len(path_in) < 2 THEN FALSE
  ELSE ch_isalpha(path_in[1]) /\ path_in[2] = ":"

\* WslPath._get_drive_letter
_get_drive_letter(path_in, mnt) ==
  IF mnt
  THEN LET parts == str_split(path_in, "/", 4)
       IN IF Len(parts) >= 3 /\ Len(parts[3]) = 1 /\ str_isalpha(parts[3])
          THEN [exc |-> "", ret |-> str_lower(parts[3])]
          ELSE [exc |-> "ValueError", ret |-> <<>>]
  ELSE IF is_nt(path_in)
       THEN [exc |-> "", ret |-> str_lower(<<path_in[1]>>)]
       ELSE [exc |-> "ValueError", ret |-> <<>>]

\* WslPath._normalize_path: the two f-strings, d the drive letter
normalized_nt(raw_str, d) ==
  IF d.exc # "" THEN d
  ELSE [exc |-> "", ret |-> str_upper(d.ret) \o <<":">> \o Slice(raw_str, 7)]

normalized_mnt(raw_str, d) ==
  IF d.exc # "" THEN d
  ELSE [exc |-> "", ret |-> <<"/", "m", "n", "t", "/">> \o d.ret \o Slice(raw_str, 2)]

\* WslPath._normalize_path
_normalize_path(os, raw_str) ==
  IF is_mnt(raw_str)
  THEN IF os = "posix" THEN [exc |-> "", ret |-> raw_str]
       ELSE normalized_nt(raw_str, _get_drive_letter(raw_str, TRUE))
  ELSE IF is_nt(raw_str)
  THEN IF os = "nt" THEN [exc |-> "", ret |-> raw_str]
       ELSE normalized_mnt(raw_str, _get_drive_letter(raw_str, FALSE))
  ELSE [exc |-> "NotImplementedError", ret |-> <<>>]

\* the assignment of drive_letter after a view was stored in s1; d is the
\* result of _get_drive_letter
with_drive_letter(s1, d) ==
  IF d.exc # "" THEN Raises(s1, d.exc)
  ELSE Returns([s1 EXCEPT !.drive_letter = d.ret], <<>>)

\* The classification shared by _init_views and _ensure_views_from_self:
\* Windows drive form first, then mount form, else NotImplementedError.
classify_str(start, current) ==
  IF is_nt(current)
  THEN with_drive_letter([start EXCEPT !._win_path = Some(PurePath("nt", <<current>>))],
                         _get_drive_letter(current, FALSE))
  ELSE IF is_mnt(current)
  THEN with_drive_letter([start EXCEPT !._wsl_path = Some(PurePath("posix", <<current>>))],
                         _get_drive_letter(current, TRUE))
  ELSE Raises(start, "NotImplementedError")

\* WslPath._init_views
_init_views(os, self) ==
  classify_str([self EXCEPT !._wsl_path = None, !._win_path = None, !.inits = @ + 1],
               as_posix(base_flavour(os), base_path(self)))

\* WslPath._ensure_views_from_self
_ensure_views_from_self(os, self) ==
  classify_str(self, as_posix(base_flavour(os), base_path(self)))

\* ensure_attributes without the test of drive_letter: every call classifies
\* the instance again
ensure_attributes_unguarded(os, self) == _init_views(os, self)

\* WslPath.ensure_attributes
ensure_attributes(os, self) ==
  IF self.drive_letter = <<>> THEN _init_views(os, self) ELSE Returns(self, <<>>)

\* line 188 with win_path.parts in place of win_path.parts[1:]: the anchor
\* of the Windows view stays among the components of the mount view
wsl_view_keeps_anchor(r) ==
  IF r.exc # "" THEN r
  ELSE IF r.self._win_path # None
  THEN Returns([r.self EXCEPT !._wsl_path =
                  Some(PurePath("posix",
                         <<<<"/", "m", "n", "t">>, r.self.drive_letter>>
                         \o r.self._win_path[1].parts))],
               <<>>)
  ELSE r

\* _ensure_wsl_view, lines 187-193: r is the instance after lines 181-185
wsl_view_from_win(r) ==
  IF r.exc # "" THEN r
  ELSE IF r.self._win_path # None
  THEN Returns([r.self EXCEPT !._wsl_path =
                  Some(PurePath("posix",
                         <<<<"/", "m", "n", "t">>, r.self.drive_letter>>
                         \o Tail(r.self._win_path[1].parts)))],
               <<>>)
  ELSE r

\* WslPath._ensure_wsl_view
_ensure_wsl_view(os, self) ==
  IF self._wsl_path # None THEN Returns(self, <<>>)
  ELSE wsl_view_from_win(IF self._win_path = None
                         THEN _ensure_views_from_self(os, self)
                         ELSE Returns(self, <<>>))

\* line 204 with len(parts) < 4 in place of len(parts) < 3: a mount path
\* needs a component after the drive
win_view_needs_component(r) ==
  IF r.exc # "" THEN r
  ELSE IF r.self._wsl_path # None
  THEN IF Len(r.self._wsl_path[1].parts) < 4
          \/ r.self._wsl_path[1].parts[2] # <<"m", "n", "t">>
       THEN Raises(r.self, "NotImplementedError")
       ELSE Returns([r.self EXCEPT !._win_path =
                       Some(PurePath("nt",
                              <<str_upper(r.self.drive_letter) \o <<":", "\\">>>>
                              \o SubSeq(r.self._wsl_path[1].parts, 4,
                                        Len(r.self._wsl_path[1].parts))))],
                    <<>>)
  ELSE r

\* _ensure_win_view, lines 203-214: r is the instance after lines 197-201
win_view_from_wsl(r) ==
  IF r.exc # "" THEN r
  ELSE IF r.self._wsl_path # None
  THEN IF Len(r.self._wsl_path[1].parts) < 3
          \/ r.self._wsl_path[1].parts[2] # <<"m", "n", "t">>
       THEN Raises(r.self, "NotImplementedError")
       ELSE Returns([r.self EXCEPT !._win_path =
                       Some(PurePath("nt",
                              <<str_upper(r.self.drive_letter) \o <<":", "\\">>>>
                              \o SubSeq(r.self._wsl_path[1].parts, 4,
                                        Len(r.self._wsl_path[1].parts))))],
                    <<>>)
  ELSE r

\* WslPath._ensure_win_view
_ensure_win_view(os, self) ==
  IF self._win_path # None THEN Returns(self, <<>>)
  ELSE win_view_from_wsl(IF self._wsl_path = None
                         THEN _ensure_views_from_self(os, self)
                         ELSE Returns(self, <<>>))

\* wsl_path, lines 69-72: e is the instance after lines 64-67
wsl_path_return(e) ==
  IF e.exc # "" THEN e
  ELSE IF e.self._wsl_path = None THEN Raises(e.self, "RuntimeError")
  ELSE Returns(e.self, path_str("posix", e.self._wsl_path[1]))

\* wsl_path, lines 66-72: a is the instance after ensure_attributes
wsl_path_ensured(os, a) ==
  IF a.exc # "" THEN a
  ELSE wsl_path_return(IF a.self._wsl_path = None THEN _ensure_wsl_view(os, a.self) ELSE a)

\* WslPath.wsl_path (property)
wsl_path(os, self) == wsl_path_ensured(os, ensure_attributes(os, self))

\* win_path, lines 82-85: e is the instance after lines 77-80
win_path_return(e) ==
  IF e.exc # "" THEN e
  ELSE IF e.self._win_path = None THEN Raises(e.self, "RuntimeError")
  ELSE Returns(e.self, path_str("nt", e.self._win_path[1]))

\* win_path, lines 79-85: a is the instance after ensure_attributes
win_path_ensured(os, a) ==
  IF a.exc # "" THEN a
  ELSE win_path_return(IF a.self._win_path = None THEN _ensure_win_view(os, a.self) ELSE a)

\* WslPath.win_path (property)
win_path(os, self) == win_path_ensured(os, ensure_attributes(os, self))

\* __init__, lines 28-35: fresh is the object Path.__new__ made
init_normalized(os, fresh, normalized) ==
  IF normalized.exc # "" THEN Raises(fresh, normalized.exc)
  ELSE ensure_attributes(os, fresh)

\* WslPath(arg): Path.__new__ parses the argument as given, then __init__
\* validates the backslash-replaced string and calls ensure_attributes.
\* The value of _normalize_path is not passed to the base class (line 32).
WslPath(os, arg) ==
  init_normalized(os,
    [NewObject(PurePath(base_flavour(os), <<arg>>)) EXCEPT !.src = arg],
    _normalize_path(os, str_replace(arg, "\\", "/")))

\* a child that is a copy of self with the joined parts: the three
\* attributes of self come along
child_of_keeps_attributes(f, self, p2) ==
  [NewObject(join_parsed_parts(f, self.drv, self.root, self.parts,
                               p2.drv, p2.root, p2.parts))
     EXCEPT !._wsl_path = self._wsl_path, !._win_path = self._win_path,
            !.drive_letter = self.drive_letter, !.inits = self.inits]

\* PurePath._make_child followed by _from_parsed_parts: the object that
\* super().__truediv__(other) returns, without the attributes of WslPath;
\* p2 is the parsed operand
child_of(f, self, p2) ==
  NewObject(join_parsed_parts(f, self.drv, self.root, self.parts,
                              p2.drv, p2.root, p2.parts))

make_child(os, self, other) ==
  child_of(base_flavour(os), self, parse_parts(base_flavour(os), <<other>>))

\* WslPath.__truediv__ (the result is always a WslPath: _from_parsed_parts
\* builds an object of type(self))
truediv(os, self, other) == ensure_attributes(os, make_child(os, self, other))

\* the state of self after self / other or self._make_child_relpath(name):
\* neither reads nor writes an attribute of self
parent_after_child(os, self) == self

\* WslPath._make_child_relpath (Path._make_child_relpath appends the name
\* to _parts unparsed)
_make_child_relpath(os, self, name) ==
  ensure_attributes(os,
    NewObject([drv |-> self.drv, root |-> self.root,
               parts |-> Append(self.parts, name)]))

\* the accessor of a freshly constructed instance; c is the result of WslPath
accessor_of_new(os, c, want_wsl) ==
  IF c.exc # "" THEN c
  ELSE IF want_wsl THEN wsl_path(os, c.self) ELSE win_path(os, c.self)

\* to_wsl / to_windows
to_wsl(os, path_like) == accessor_of_new(os, WslPath(os, path_like), TRUE)

to_windows(os, path_like) == accessor_of_new(os, WslPath(os, path_like), FALSE)

(***************************************************************************)
(* Inputs                                                                  *)
(***************************************************************************)
TailChars == {"a", ".", ":", "/", "\\"}

RECURSIVE Strings(_)
Strings(n) ==
  IF n = 0 THEN {<<>>}
  ELSE Strings(n - 1) \cup {Append(s, c) : s \in Strings(n - 1), c \in TailChars}

Prefixes ==
  { <<"C", ":">>, <<"c", ":">>, <<"D", ":", "\\">>,
    <<"/", "m", "n", "t", "/", "c">>, <<"/", "m", "n", "t", "/", "C", "/">>,
    <<"\\", "m", "n", "t", "\\", "c">>, <<"/", "m", "n", "t", "/", "c", "D">>,
    <<"/", "m", "n", "t", "/">>, <<"~">>, <<>> }

\* the paths of the tests and of the documentation
Examples ==
  { <<"C", ":", "\\", "f", "o", "o", "\\", "t", "e", "s", "t", ".", "t", "x", "t">>,
    <<"/", "m", "n", "t", "/", "c", "/", "f", "o", "o", "/", "t", "e", "s", "t", ".", "t", "x", "t">>,
    <<"C", ":", "\\", "f", "o", "o">>,
    <<"/", "m", "n", "t", "/", "c", "/", "f", "o", "o">>,
    <<"D", ":", "\\", ".", "w", "o", "r", "\\", "t", "e", "s", "t", ".", "t", "x", "t">>,
    <<"/", "m", "n", "t", "/", "d", "/", ".", "w", "o", "r", "/", "t", "e", "s", "t", ".", "t", "x", "t">>,
    <<"~", "/", "w", "s", "l", "_", "u", "s", "e", "r", "_", "f", "o", "l", "d", "e">> }

Inputs == Examples \cup {pre \o tail : pre \in Prefixes, tail \in Strings(MaxTail)}

test_txt == <<"t", "e", "s", "t", ".", "t", "x", "t">>

\* right operands of /
JoinArgs ==
  { test_txt, <<"a">>, <<".", ".">>, <<"D", ":", "a">>, <<"/", "a">>, <<"\\", "a">> }

\* directory entry names handed to _make_child_relpath
ChildNames == { test_txt, <<"a">> }

\* constructor arguments of the instances that are joined
Roots ==
  Examples \cup
  { <<"C", ":">>, <<"C", ":", "\\">>, <<"c", ":", "a">>, <<"C", ":", ".">>,
    <<"/", "m", "n", "t", "/", "c">>, <<"/", "m", "n", "t", "/", "C", "/", "a">>,
    <<"/", "m", "n", "t", "/", "c", "/", "D", ":", "a">>,
    <<"\\", "m", "n", "t", "\\", "c">> }

(***************************************************************************)
(* State machine: one constructed instance and the instances derived from  *)
(* it (instances share no state, so a second constructed instance adds     *)
(* nothing; a failed construction leaves no instance and ends the run).    *)
(* last is the most recent call: its operation, the index of               *)
(* the instance it was called on, its argument, the index of the instance  *)
(* it returned (0: none), the string it returned and the exception raised. *)
(***************************************************************************)
Call(op, self, arg, new, ret, exc) ==
  [op |-> op, self |-> self, arg |-> arg, new |-> new, ret |-> ret, exc |-> exc]

Init ==
  /\ os_name \in {"posix", "nt"}
  /\ objs = <<>>
  /\ last = Call("none", 0, <<>>, 0, <<>>, "")

\* the instance r.self (with its history fields set) joins objs, or the
\* exception of r is recorded
Constructed(arg, r, origin, via) ==
  IF r.exc # ""
  THEN /\ objs' = objs
       /\ last' = Call("WslPath", 0, arg, 0, <<>>, r.exc)
  ELSE /\ objs' = Append(objs, [r.self EXCEPT !.origin = origin, !.via = via])
       /\ last' = Call("WslPath", 0, arg, Len(objs) + 1, <<>>, "")

\* WslPath(arg)
Create(arg) ==
  /\ objs = <<>> /\ last.op = "none"
  /\ Constructed(arg, WslPath(os_name, arg), 0, "")
  /\ UNCHANGED os_name

\* WslPath(p.wsl_path) / WslPath(p.win_path): the string an accessor has
\* just returned is the argument (to_wsl / to_windows on a converted path)
CreateFromResult ==
  /\ objs # <<>> /\ Len(objs) < MaxObjs
  /\ last.op \in {"wsl_path", "win_path"} /\ last.exc = ""
  /\ Constructed(last.ret, WslPath(os_name, last.ret), last.self, last.op)
  /\ UNCHANGED os_name

Accessed(op, k, r) ==
  /\ objs' = [objs EXCEPT ![k] = r.self]
  /\ last' = Call(op, k, <<>>, 0, r.ret, r.exc)

\* objs[k].wsl_path
WslAccess(k) ==
  /\ Accessed("wsl_path", k, wsl_path(os_name, objs[k]))
  /\ UNCHANGED os_name

\* objs[k].win_path
WinAccess(k) ==
  /\ Accessed("win_path", k, win_path(os_name, objs[k]))
  /\ UNCHANGED os_name

Joined(op, k, other, r, kept) ==
  IF r.exc # ""
  THEN /\ objs' = kept
       /\ last' = Call(op, k, other, 0, <<>>, r.exc)
  ELSE /\ objs' = Append(kept, [r.self EXCEPT !.parent = k, !.seg = other])
       /\ last' = Call(op, k, other, Len(objs) + 1, <<>>, "")

\* objs[k] / other
Join(k, other) ==
  /\ Len(objs) < MaxObjs
  /\ Joined("truediv", k, other, truediv(os_name, objs[k], other),
            [objs EXCEPT ![k] = parent_after_child(os_name, objs[k])])
  /\ UNCHANGED os_name

\* objs[k]._make_child_relpath(name)
MakeChildRelpath(k, name) ==
  /\ Len(objs) < MaxObjs
  /\ Joined("_make_child_relpath", k, name, _make_child_relpath(os_name, objs[k], name),
            [objs EXCEPT ![k] = parent_after_child(os_name, objs[k])])
  /\ UNCHANGED os_name

\* construction, the accessors and the joins, from the arguments in Roots
Next ==
  \/ \E arg \in Roots : Create(arg)
  \/ \E k \in DOMAIN objs : WslAccess(k)
  \/ \E k \in DOMAIN objs : WinAccess(k)
  \/ \E k \in DOMAIN objs : \E other \in JoinArgs : Join(k, other)
  \/ \E k \in DOMAIN objs : \E name \in ChildNames : MakeChildRelpath(k, name)

Spec == Init /\ [][Next]_vars

\* construction and the accessors (conversion, and conversion of a converted
\* path), from every generated argument
NextConv ==
  \/ \E arg \in Inputs : Create(arg)
  \/ CreateFromResult
  \/ \E k \in DOMAIN objs : WslAccess(k)
  \/ \E k \in DOMAIN objs : WinAccess(k)

SpecConv == Init /\ [][NextConv]_vars

(***************************************************************************)
(* What the documentation says of the paths, in its own terms               *)
(***************************************************************************)
Slashed(s) == str_replace(s, "\\", "/")

\* the Windows-drive rule: first character alphabetic, second ':'
WindowsRule(s) == Len(s) >= 2 /\ ch_isalpha(s[1]) /\ s[2] = ":"

\* the mount rule: '/mnt/', one alphabetic character, then '/' or the end
MountRule(s) ==
  /\ startswith(s, <<"/", "m", "n", "t", "/">>)
  /\ Len(s) >= 6 /\ ch_isalpha(s[6])
  /\ (Len(s) = 6 \/ s[7] = "/")

\* the segments of s, separators of either kind, without empty and '.' ones
Segments(s) == keep_components(str_split(Slashed(s), "/", -1))

RECURSIVE EachPrefixed(_, _)
EachPrefixed(sep, segs) ==
  IF segs = <<>> THEN <<>> ELSE <<sep>> \o Head(segs) \o EachPrefixed(sep, Tail(segs))

\* '/mnt/' + lowercased letter + the segments after the drive, joined with '/'
ExpectedMount(P) ==
  <<"/", "m", "n", "t", "/", ch_lower(P[1])>> \o EachPrefixed("/", Segments(Slice(P, 2)))

\* uppercased letter + ':\' + the segments after '/mnt/<letter>', joined with '\'
ExpectedWindows(Q) ==
  <<ch_upper(Q[6]), ":", "\\">> \o str_join(<<"\\">>, Segments(Slice(Q, 6)))

IsLowerLetter(ch) == \E i \in Letters : ch = LowerSeq[i]
IsUpperLetter(ch) == \E i \in Letters : ch = UpperSeq[i]

\* a segment name: non-empty, no separator of either kind
IsSegmentName(s) == s # <<>> /\ \A i \in DOMAIN s : s[i] # "/" /\ s[i] # "\\"

StartsWithSeparator(s) == s # <<>> /\ (s[1] = "/" \/ s[1] = "\\")

\* str with s appended as one further sep-separated segment
AppendSegment(str, s, sep) ==
  IF str # <<>> /\ str[Len(str)] = sep THEN str \o s ELSE str \o <<sep>> \o s

Accessors == {"wsl_path", "win_path"}

ExactlyOneView(o) == (o._wsl_path = None) # (o._win_path = None)

(***************************************************************************)
(* C1                                                                      *)
(***************************************************************************)
\* C1: for every argument P of the Windows-drive form, WslPath(P) succeeds and
\* WslPath(P).wsl_path is '/mnt/' + the lowercased drive letter + the segments
\* of P after the drive, each preceded by '/' ('/mnt/c' for a bare drive root).
C1_MountOfWindowsInput ==
  /\ (last.op = "WslPath" /\ WindowsRule(last.arg)) => (last.exc = "" /\ last.new # 0)
  /\ \A k \in DOMAIN objs :
       (last.op = "wsl_path" /\ last.self = k /\ WindowsRule(objs[k].src))
         => (last.exc = "" /\ last.ret = ExpectedMount(objs[k].src))

\* wsl_path of WslPath('D:\.wor\test.txt') has returned '/mnt/d/.wor/test.txt'
C1_Witness ==
  \E k \in DOMAIN objs :
    /\ last.op = "wsl_path" /\ last.self = k
    /\ objs[k].src = <<"D", ":", "\\", ".", "w", "o", "r", "\\">> \o test_txt
    /\ last.ret = <<"/", "m", "n", "t", "/", "d", "/", ".", "w", "o", "r", "/">> \o test_txt

(***************************************************************************)
(* C2                                                                      *)
(***************************************************************************)
\* C2: for every argument Q of the mount form, WslPath(Q).win_path is the
\* uppercased drive letter + ':\' + the segments of Q after '/mnt/<letter>'
\* joined with '\' ('C:\' when there is none).
C2_WindowsOfMountInput ==
  \A k \in DOMAIN objs :
    (last.op = "win_path" /\ last.self = k /\ MountRule(Slashed(objs[k].src)))
      => (last.exc = "" /\ last.ret = ExpectedWindows(Slashed(objs[k].src)))

(***************************************************************************)
(* C3                                                                      *)
(***************************************************************************)
\* C3: for a child made by parent / s with s a segment name, child.wsl_path is
\* parent.wsl_path with s appended as one further '/'-separated segment and
\* child.win_path is parent.win_path with s appended as one further
\* '\'-separated segment, whatever was called on the parent before.
C3_JoinAppendsSegment ==
  \A k \in DOMAIN objs :
    (objs[k].parent # 0 /\ IsSegmentName(objs[k].seg) /\ last.self = k)
      => /\ last.op = "wsl_path" =>
              /\ last.exc = ""
              /\ last.ret = AppendSegment(wsl_path(os_name, objs[objs[k].parent]).ret,
                                          objs[k].seg, "/")
         /\ last.op = "win_path" =>
              /\ last.exc = ""
              /\ last.ret = AppendSegment(win_path(os_name, objs[objs[k].parent]).ret,
                                          objs[k].seg, "\\")

(***************************************************************************)
(* C4                                                                      *)
(***************************************************************************)
\* C4: WslPath(arg) raises NotImplementedError exactly when arg with every
\* backslash replaced by '/' matches neither the mount rule nor the
\* Windows-drive rule; a failure leaves no instance, and a success leaves an
\* instance whose one populated view is of the family whose rule matched.
C4_FailsExactlyWhenUnclassified ==
  last.op = "WslPath" =>
    /\ (last.exc = "NotImplementedError")
         <=> ~(MountRule(Slashed(last.arg)) \/ WindowsRule(Slashed(last.arg)))
    /\ last.exc \in {"", "NotImplementedError"}
    /\ last.exc # "" => last.new = 0
    /\ last.exc = "" =>
         /\ last.new \in DOMAIN objs
         /\ IF MountRule(Slashed(last.arg))
            THEN objs[last.new]._wsl_path # None /\ objs[last.new]._win_path = None
            ELSE objs[last.new]._win_path # None /\ objs[last.new]._wsl_path = None

(***************************************************************************)
(* C5                                                                      *)
(***************************************************************************)
\* C5: WslPath(WslPath(P).wsl_path).win_path = P for every accepted P of the
\* Windows-drive form, and WslPath(WslPath(Q).win_path).wsl_path = Q for
\* every accepted Q of the mount form.
C5_RoundTrip ==
  \A k \in DOMAIN objs :
    (objs[k].origin # 0 /\ last.self = k)
      => /\ (/\ objs[k].via = "wsl_path" /\ last.op = "win_path"
             /\ WindowsRule(objs[objs[k].origin].src))
              => (last.exc = "" /\ last.ret = objs[objs[k].origin].src)
         /\ (/\ objs[k].via = "win_path" /\ last.op = "wsl_path"
             /\ MountRule(objs[objs[k].origin].src))
              => (last.exc = "" /\ last.ret = objs[objs[k].origin].src)

(***************************************************************************)
(* C6                                                                      *)
(***************************************************************************)
\* C6 as stated: on an instance that WslPath returned, wsl_path, win_path and
\* / with any right operand return and never raise.
C6_OnlyCreateFails ==
  last.op \in Accessors \cup {"truediv"} => last.exc = ""

\* C6: wsl_path and win_path never raise on an instance that WslPath or /
\* returned; / never raises for a right operand that does not start with a
\* separator; when / raises, it raises NotImplementedError and returns no
\* instance.
C6_JoinFailsOnlyOnLeadingSeparator ==
  /\ last.op \in Accessors => last.exc = ""
  /\ last.op = "truediv" =>
       /\ ~StartsWithSeparator(last.arg) => (last.exc = "" /\ last.new # 0)
       /\ last.exc # "" => (last.exc = "NotImplementedError" /\ last.new = 0)

\* the non-native accessor has returned on a child that / made from a right
\* operand with no leading separator
C6_Witness ==
  \E k \in DOMAIN objs :
    /\ objs[k].parent # 0 /\ ~StartsWithSeparator(objs[k].seg)
    /\ last.op \in Accessors /\ last.self = k /\ last.exc = ""
    /\ objs[k]._wsl_path # None /\ objs[k]._win_path # None

(***************************************************************************)
(* C7                                                                      *)
(***************************************************************************)
\* C7: every string wsl_path returns has a lowercase letter as its
\* '/mnt/<letter>' segment, and every string win_path returns begins with an
\* uppercase letter.
C7_DriveLetterCase ==
  /\ (last.op = "wsl_path" /\ last.exc = "") =>
       /\ startswith(last.ret, <<"/", "m", "n", "t", "/">>)
       /\ Len(last.ret) >= 6 /\ IsLowerLetter(last.ret[6])
       /\ (Len(last.ret) = 6 \/ last.ret[7] = "/")
  /\ (last.op = "win_path" /\ last.exc = "") =>
       /\ Len(last.ret) >= 2 /\ IsUpperLetter(last.ret[1]) /\ last.ret[2] = ":"

(***************************************************************************)
(* C8                                                                      *)
(***************************************************************************)
\* C8: every instance has at least one view, drive_letter is a single
\* lowercase letter that equals, case-insensitively, the drive letter of each
\* populated view, and the instance a construction or a join has just
\* returned has exactly one view.
C8_ViewsAndDriveLetter ==
  \A k \in DOMAIN objs :
    /\ objs[k]._wsl_path # None \/ objs[k]._win_path # None
    /\ Len(objs[k].drive_letter) = 1 /\ IsLowerLetter(objs[k].drive_letter[1])
    /\ objs[k]._wsl_path # None =>
         /\ Len(objs[k]._wsl_path[1].parts) >= 3
         /\ str_lower(objs[k]._wsl_path[1].parts[3]) = objs[k].drive_letter
    /\ objs[k]._win_path # None =>
         /\ Len(objs[k]._win_path[1].drv) = 2
         /\ <<ch_lower(objs[k]._win_path[1].drv[1])>> = objs[k].drive_letter
    /\ last.new = k => ExactlyOneView(objs[k])

(***************************************************************************)
(* C9                                                                      *)
(***************************************************************************)
\* C9: in every step a populated view keeps its value and drive_letter keeps
\* its value; _init_views has run exactly once on every instance; a call of
\* wsl_path leaves _win_path as it was, a call of win_path leaves _wsl_path as
\* it was; each returns the string of the stored view, so a repeated call
\* returns the same string.
C9_MemoizationStable ==
  [][ \A k \in DOMAIN objs :
        /\ k \in DOMAIN objs'
        /\ objs[k]._wsl_path # None => objs'[k]._wsl_path = objs[k]._wsl_path
        /\ objs[k]._win_path # None => objs'[k]._win_path = objs[k]._win_path
        /\ objs'[k].drive_letter = objs[k].drive_letter
        /\ objs[k].inits = 1 /\ objs'[k].inits = 1
        /\ (last'.op = "wsl_path" /\ last'.self = k) =>
             /\ last'.exc = ""
             /\ objs'[k]._win_path = objs[k]._win_path
             /\ objs'[k]._wsl_path # None
             /\ last'.ret = path_str("posix", objs'[k]._wsl_path[1])
        /\ (last'.op = "win_path" /\ last'.self = k) =>
             /\ last'.exc = ""
             /\ objs'[k]._wsl_path = objs[k]._wsl_path
             /\ objs'[k]._win_path # None
             /\ last'.ret = path_str("nt", objs'[k]._win_path[1])
    ]_vars

\* win_path has returned on an instance constructed from a Windows path whose
\* mount view had been derived before
C9_Witness ==
  \E k \in DOMAIN objs :
    /\ last.op = "win_path" /\ last.self = k /\ last.exc = ""
    /\ WindowsRule(objs[k].src)
    /\ objs[k]._wsl_path # None /\ objs[k]._win_path # None
    /\ objs[k].inits = 1

(***************************************************************************)
(* C10                                                                     *)
(***************************************************************************)
\* the classification of c from its own path: the view, the other view
\* empty, the drive letter
ClassifiedAfresh(c, s) ==
  IF is_nt(s)
  THEN /\ c._win_path = Some(PurePath("nt", <<s>>)) /\ c._wsl_path = None
       /\ c.drive_letter = <<ch_lower(s[1])>>
  ELSE /\ c._wsl_path = Some(PurePath("posix", <<s>>)) /\ c._win_path = None
       /\ c.drive_letter = <<ch_lower(s[6])>>

\* C10: a step of / leaves every existing instance as it was (the parent
\* gains no view) and the instance it returns is a new one, classified once
\* from its own path, with one view; a step of an accessor changes no
\* instance but the one it is called on.
C10_JoinLeavesParent ==
  [][ /\ last'.op = "truediv" =>
           /\ \A k \in DOMAIN objs : k \in DOMAIN objs' /\ objs'[k] = objs[k]
           /\ last'.new # 0 =>
                /\ last'.new = Len(objs) + 1 /\ Len(objs') = Len(objs) + 1
                /\ objs'[last'.new].inits = 1
                /\ ClassifiedAfresh(objs'[last'.new],
                                    as_posix(base_flavour(os_name),
                                             base_path(objs'[last'.new])))
           /\ last'.new = 0 => objs' = objs
      /\ last'.op \in Accessors =>
           /\ DOMAIN objs' = DOMAIN objs
           /\ \A j \in DOMAIN objs : j # last'.self => objs'[j] = objs[j]
    ]_vars

\* / has returned a child of a parent that has both views
C10_Witness ==
  /\ last.op = "truediv" /\ last.new \in DOMAIN objs /\ last.self \in DOMAIN objs
  /\ objs[last.self]._wsl_path # None /\ objs[last.self]._win_path # None
  /\ ExactlyOneView(objs[last.new])

====
